---- MODULE Spec2Model ----
(***************************************************************************)
(* Hybrid reliability solver of RelAIBotiX: the MarkovChain and FaultTree  *)
(* data model (reliability_models.py), the fault-tree graph (dra_graph.py) *)
(* and the solvers (dra_solver.py).                                        *)
(*                                                                         *)
(* Python values are 4-tuples <<kind, text, n, d>>: a number n/d in lowest *)
(* terms (floats are modelled by exact rationals), a str, or the bool      *)
(* False.  A dict is the sequence of its <<key, value>> items in insertion *)
(* order, a list is a sequence.                                            *)
(***************************************************************************)
EXTENDS Integers, Sequences, FiniteSets, TLC

\* ---------------------------------------------------------------- values

Abs(x) == IF x < 0 THEN -x ELSE x

RECURSIVE Gcd(_, _)
Gcd(a, b) == IF b = 0 THEN a ELSE Gcd(b, a % b)

\* the number n/d, d # 0, in lowest terms with a positive denominator
Num(n, d) ==
    LET g == Gcd(Abs(n), Abs(d))
        s == IF d < 0 THEN -1 ELSE 1
    IN  <<"num", "", (s * n) \div g, (s * d) \div g>>

Str(s) == <<"str", s, 0, 1>>

\* Python's False, what solve_ft_gate returns after printing an error
PyFalse == <<"bool", "", 0, 1>>

\* the result of dividing by zero in the float solve (inf or nan)
NaN == <<"nan", "", 0, 1>>

IsNum(v) == v[1] = "num"

Zero == Num(0, 1)
One == Num(1, 1)

\* Python arithmetic reads the bool False as the int 0
AsNum(v) == IF v[1] = "bool" THEN Zero ELSE v

RAdd(a, b) ==
    LET x == AsNum(a)
        y == AsNum(b)
        g == Gcd(x[4], y[4])
    IN  Num(x[3] * (y[4] \div g) + y[3] * (x[4] \div g), (x[4] \div g) * y[4])

RSub(a, b) ==
    LET x == AsNum(a)
        y == AsNum(b)
        g == Gcd(x[4], y[4])
    IN  Num(x[3] * (y[4] \div g) - y[3] * (x[4] \div g), (x[4] \div g) * y[4])

\* the product of two fractions in lowest terms, cancelled across before multiplying
RMulReduced(xn, xd, yn, yd) ==
    LET g1 == Gcd(Abs(xn), Abs(yd))
        g2 == Gcd(Abs(yn), Abs(xd))
    IN  IF xn = 0 \/ yn = 0 THEN Num(0, 1)
        ELSE Num((xn \div g1) * (yn \div g2), (xd \div g2) * (yd \div g1))

RMul(a, b) ==
    LET x == AsNum(a)
        y == AsNum(b)
    IN  RMulReduced(x[3], x[4], y[3], y[4])

RDiv(a, b) ==
    IF a[1] = "nan" \/ b[1] = "nan" \/ b[3] = 0
    THEN NaN
    ELSE RMulReduced(a[3], a[4], b[4], b[3])

RLess(a, b) ==
    LET g == Gcd(a[4], b[4])
    IN  a[3] * (b[4] \div g) < b[3] * (a[4] \div g)

RAbs(a) == Num(Abs(a[3]), a[4])

\* ---------------------------------------------------------------- strings

UpperCase == "ABCDEFGHIJKLMNOPQRSTUVWXYZ"
LowerCase == "abcdefghijklmnopqrstuvwxyz"

\* str.lower() on one character
LowerChar(c) ==
    IF \E i \in 1..26 : SubSeq(UpperCase, i, i) = c
    THEN LET i == CHOOSE i \in 1..26 : SubSeq(UpperCase, i, i) = c
         IN  SubSeq(LowerCase, i, i)
    ELSE c

RECURSIVE Lower(_)
Lower(s) ==
    IF Len(s) = 0
    THEN ""
    ELSE LowerChar(SubSeq(s, 1, 1)) \o Lower(SubSeq(s, 2, Len(s)))

\* `sub in s` / `s.find(sub) != -1` on strings
Contains(sub, s) ==
    \E i \in 1..(Len(s) - Len(sub) + 1) : SubSeq(s, i, i + Len(sub) - 1) = sub

Digits == <<"0", "1", "2", "3", "4", "5", "6", "7", "8", "9">>

DigitValue(c) == (CHOOSE i \in 1..10 : Digits[i] = c) - 1

IsDigitString(s) ==
    /\ Len(s) > 0
    /\ \A i \in 1..Len(s) : \E k \in 1..10 : Digits[k] = SubSeq(s, i, i)

RECURSIVE DigitsValue(_)
DigitsValue(s) ==
    IF Len(s) = 0
    THEN 0
    ELSE 10 * DigitsValue(SubSeq(s, 1, Len(s) - 1)) + DigitValue(SubSeq(s, Len(s), Len(s)))

\* ---------------------------------------------------------------- dicts

DictHas(d, k) == \E i \in 1..Len(d) : d[i][1] = k

DictGet(d, k) == d[CHOOSE i \in 1..Len(d) : d[i][1] = k][2]

\* d[k] = v: an existing key keeps its place, a new key goes last
DictSet(d, k, v) ==
    IF DictHas(d, k)
    THEN [i \in 1..Len(d) |-> IF d[i][1] = k THEN <<k, v>> ELSE d[i]]
    ELSE Append(d, <<k, v>>)

\* del d[k]
DictDel(d, k) == SelectSeq(d, LAMBDA kv : kv[1] # k)

DictKeys(d) == [i \in 1..Len(d) |-> d[i][1]]

\* `x in lst` on a list
InList(x, lst) == \E i \in 1..Len(lst) : lst[i] = x

\* lst.index(x): the first place of x, counted from 0
IndexOf(lst, x) == (CHOOSE i \in 1..Len(lst) : lst[i] = x /\ \A j \in 1..(i - 1) : lst[j] # x) - 1

\* a left fold over a list, the shape of a Python for loop that updates acc
FoldLeft(Op(_, _), acc, seq) ==
    LET f[i \in 0..Len(seq)] == IF i = 0 THEN acc ELSE Op(f[i - 1], seq[i])
    IN  f[Len(seq)]

\* ---------------------------------------------------------------- MarkovChain

\* the value of edges[k]: a list of destinations, or (absorbing) the state's own name
EList(l) == <<"list", l, "">>
EStr(s) == <<"str", <<>>, s>>

\* add_absorbing_states with `done` appended whatever done_state is
add_absorbing_states_AlwaysDone(sts, absorbing, done_state) ==
    Append(FoldLeft(LAMBDA acc, st : Append(acc, st \o "_failure"), absorbing, sts), "done")

\* add_absorbing_states: one `<state>_failure` per state, then `done`
add_absorbing_states(sts, absorbing, done_state) ==
    LET withFailure == FoldLeft(LAMBDA acc, st : Append(acc, st \o "_failure"), absorbing, sts)
    IN  IF done_state THEN Append(withFailure, "done") ELSE withFailure

\* the inner loop of add_edges: every absorbing state whose name holds the state's name
FailureSiblings(st, absorbing) == SelectSeq(absorbing, LAMBDA a : Contains(st, a))

\* the edge list add_edges builds for states[i]
EdgesOfState(sts, absorbing, repeat_info, i) ==
    IF i < Len(sts)
    THEN <<sts[i + 1]>> \o FailureSiblings(sts[i], absorbing)
    ELSE FailureSiblings(sts[i], absorbing)
         \o (IF InList("done", absorbing) THEN <<"done">> ELSE <<>>)
         \o (IF repeat_info = 1 THEN <<sts[1]>> ELSE <<>>)

\* add_edges
add_edges(sts, absorbing, edgs, repeat_info) ==
    LET f[i \in 0..Len(sts)] ==
            IF i = 0
            THEN edgs
            ELSE DictSet(f[i - 1], sts[i], EList(EdgesOfState(sts, absorbing, repeat_info, i)))
    IN  FoldLeft(LAMBDA acc, a : DictSet(acc, a, EStr(a)), f[Len(sts)], absorbing)

\* the label add_transitions gives the edge from_state -> s
TransitionLabel(from_state, s) ==
    IF Contains("failure", s)
    THEN Str(Lower(s))
    ELSE Str("1 - " \o Lower(from_state) \o "_failure")

\* add_transitions, one item of edges
AddTransitionsOf(trs, item) ==
    LET from_state == item[1]
        to_states == item[2]
        t0 == IF DictHas(trs, from_state) THEN trs ELSE DictSet(trs, from_state, <<>>)
    IN  IF to_states[1] = "str" /\ to_states[3] = from_state
        THEN DictSet(t0, from_state, DictSet(DictGet(t0, from_state), to_states[3], Str("1")))
        ELSE FoldLeft(LAMBDA acc, s :
                          DictSet(acc, from_state,
                                  DictSet(DictGet(acc, from_state), s, TransitionLabel(from_state, s))),
                      t0, to_states[2])

\* add_transitions
add_transitions(edgs, trs) == FoldLeft(AddTransitionsOf, trs, edgs)

\* add_single_transition: the entry of from_state is created only when transitions is
\* empty; otherwise transitions[from_state] must exist (KeyError)
SingleTransitionRaises(trs, from_state) == trs # <<>> /\ ~DictHas(trs, from_state)

add_single_transition(trs, from_state, to_state, transition_value) ==
    LET t0 == IF trs = <<>> THEN DictSet(trs, from_state, <<>>) ELSE trs
    IN  DictSet(t0, from_state, DictSet(DictGet(t0, from_state), to_state, transition_value))

\* ---------------------------------------------------------------- FaultTree

\* FaultTree.__init__
FaultTree(name, top_event, skill) ==
    [name |-> name, top_event |-> top_event, skill |-> skill,
     basic_events |-> <<>>, gates |-> <<>>, top_event_failure_prob |-> Zero]

\* set_top_event_failure_prob
set_top_event_failure_prob(ft, prob) == [ft EXCEPT !.top_event_failure_prob = prob]

\* gates[g][type].append(child)
GateAppend(gates, g, type, child) ==
    DictSet(gates, g, DictSet(DictGet(gates, g), type, Append(DictGet(DictGet(gates, g), type), child)))

\* add_gates, redundancy branch, one item of redundant_components: the group's AND gate
\* takes the members found in basic_events, and each is deleted from basic_events
AddRedundantGroup(acc, item) ==
    LET g == "loss_of_" \o item[1]
        g0 == DictSet(GateAppend(acc.gates, acc.top, "OR", g), g, <<<<"AND", <<>>>>>>)
    IN  FoldLeft(LAMBDA a, component_name :
                     IF DictHas(a.basic_events, component_name)
                     THEN [a EXCEPT !.gates = GateAppend(a.gates, g, "AND", component_name),
                                    !.basic_events = DictDel(a.basic_events, component_name)]
                     ELSE a,
                 [acc EXCEPT !.gates = g0], item[2])

\* add_gates
add_gates(ft, redundancy, redundant_components) ==
    LET g0 == DictSet(ft.gates, ft.top_event, <<<<"OR", <<>>>>>>)
        start == [gates |-> g0, basic_events |-> ft.basic_events, top |-> ft.top_event]
        grouped == IF redundancy THEN FoldLeft(AddRedundantGroup, start, redundant_components) ELSE start
        gates == FoldLeft(LAMBDA g, be : GateAppend(g, ft.top_event, "OR", be[1]),
                          grouped.gates, grouped.basic_events)
    IN  [ft EXCEPT !.gates = gates, !.basic_events = grouped.basic_events]

\* auto_create_ft: <<the tree afterwards, the value returned>>
auto_create_ft(ft, basic_events, top_event, skill, redundancy, redundant_components) ==
    LET f1 == IF ft.top_event = "" /\ top_event # "" THEN [ft EXCEPT !.top_event = top_event] ELSE ft
        f2 == IF f1.skill = "" /\ skill # "" THEN [f1 EXCEPT !.skill = skill] ELSE f1
    IN  IF f2.top_event = "" /\ top_event = ""
        THEN <<f2, FALSE>>
        ELSE IF f2.skill = "" /\ skill = ""
        THEN <<f2, FALSE>>
        ELSE <<add_gates([f2 EXCEPT !.basic_events = basic_events], redundancy, redundant_components),
               TRUE>>

\* ---------------------------------------------------------------- fault-tree graph

\* a networkx node without attributes
NoAttr == [has_fp |-> FALSE, failure_prob |-> Str(""), has_gt |-> FALSE, gate_type |-> ""]

\* DiGraph.add_edge(u, v): missing nodes are added bare, an edge that exists is kept
GraphAddEdge(g, u, v) ==
    LET n1 == IF DictHas(g.nodes, u) THEN g.nodes ELSE DictSet(g.nodes, u, NoAttr)
        n2 == IF DictHas(n1, v) THEN n1 ELSE DictSet(n1, v, NoAttr)
        a1 == IF DictHas(g.adj, u) THEN g.adj ELSE DictSet(g.adj, u, <<>>)
        a2 == IF DictHas(a1, v) THEN a1 ELSE DictSet(a1, v, <<>>)
        out == DictGet(a2, u)
    IN  [nodes |-> n2,
         adj |-> IF InList(v, out) THEN a2 ELSE DictSet(a2, u, Append(out, v))]

\* DiGraph.add_node(n, **attrs)
GraphAddNode(g, n, attrs) ==
    [nodes |-> DictSet(g.nodes, n, attrs),
     adj |-> IF DictHas(g.adj, n) THEN g.adj ELSE DictSet(g.adj, n, <<>>)]

\* create_ft_graph
create_ft_graph(ft) ==
    LET g0 == [nodes |-> <<>>, adj |-> <<>>]
        g1 == FoldLeft(LAMBDA g, be :
                           GraphAddNode(g, be[1],
                               [(IF DictHas(g.nodes, be[1]) THEN DictGet(g.nodes, be[1]) ELSE NoAttr)
                                   EXCEPT !.has_fp = TRUE, !.failure_prob = be[2]]),
                       g0, ft.basic_events)
        g2 == FoldLeft(LAMBDA g, el :
                           FoldLeft(LAMBDA h, x :
                                        GraphAddNode(h, el[1],
                                            [has_fp |-> TRUE, failure_prob |-> Str(""),
                                             has_gt |-> TRUE, gate_type |-> x[1]]),
                                    g, el[2]),
                       g1, ft.gates)
    IN  FoldLeft(LAMBDA g, el :
                     FoldLeft(LAMBDA h, x :
                                  FoldLeft(LAMBDA k, basic_event : GraphAddEdge(k, el[1], basic_event),
                                           h, x[2]),
                              g, el[2]),
                 g2, ft.gates)

\* nx.get_node_attributes(ft_graph, 'gate_type')
GateTypes(g) ==
    LET having == SelectSeq(g.nodes, LAMBDA n : n[2].has_gt)
    IN  [i \in 1..Len(having) |-> <<having[i][1], having[i][2].gate_type>>]

\* nx.get_node_attributes(ft_graph, 'failure_prob')
FailureProbs(g) ==
    LET having == SelectSeq(g.nodes, LAMBDA n : n[2].has_fp)
    IN  [i \in 1..Len(having) |-> <<having[i][1], having[i][2].failure_prob>>]

\* the depth-first search of nx.dfs_successors below `node`, from its i-th neighbour on:
\* a neighbour not visited yet becomes a successor of `node` and is searched at once
RECURSIVE DfsFrom(_, _, _, _)
DfsFrom(adj, node, i, st) ==
    LET ch == DictGet(adj, node)
    IN  IF i > Len(ch)
        THEN st
        ELSE IF ch[i] \in st.visited
        THEN DfsFrom(adj, node, i + 1, st)
        ELSE LET succ == IF DictHas(st.succ, node)
                         THEN DictSet(st.succ, node, Append(DictGet(st.succ, node), ch[i]))
                         ELSE DictSet(st.succ, node, <<ch[i]>>)
                 below == DfsFrom(adj, ch[i], 1, [visited |-> st.visited \cup {ch[i]}, succ |-> succ])
             IN  DfsFrom(adj, node, i + 1, below)

\* nx.dfs_successors(ft_graph, source)
dfs_successors(g, source) == DfsFrom(g.adj, source, 1, [visited |-> {source}, succ |-> <<>>]).succ

\* ---------------------------------------------------------------- fault-tree solver

\* the value solve_ft_gate reads for a child: <<found, value>>
ChildValue(edge, basic_events, result_map) ==
    IF DictHas(basic_events, edge) THEN <<TRUE, DictGet(basic_events, edge)>>
    ELSE IF DictHas(result_map, edge) THEN <<TRUE, DictGet(result_map, edge)>>
    ELSE <<FALSE, PyFalse>>

\* solve_ft_gate with the union accumulated as a plain sum
solve_ft_gate_OrAsSum(edges, gate_type, basic_events, result_map) ==
    LET missing == \E i \in 1..Len(edges) : ~ChildValue(edges[i], basic_events, result_map)[1]
        value(e) == ChildValue(e, basic_events, result_map)[2]
    IN  IF gate_type = "AND"
        THEN IF missing THEN PyFalse
             ELSE FoldLeft(LAMBDA result_and, e : RMul(result_and, value(e)), One, edges)
        ELSE IF gate_type = "OR"
        THEN IF missing THEN PyFalse
             ELSE FoldLeft(LAMBDA result_or, e : RAdd(result_or, value(e)), Zero, edges)
        ELSE PyFalse

\* solve_ft_gate with the product started at 0
solve_ft_gate_AndFromZero(edges, gate_type, basic_events, result_map) ==
    LET missing == \E i \in 1..Len(edges) : ~ChildValue(edges[i], basic_events, result_map)[1]
        value(e) == ChildValue(e, basic_events, result_map)[2]
    IN  IF gate_type = "AND"
        THEN IF missing THEN PyFalse
             ELSE FoldLeft(LAMBDA result_and, e : RMul(result_and, value(e)), Zero, edges)
        ELSE IF gate_type = "OR"
        THEN IF missing THEN PyFalse
             ELSE FoldLeft(LAMBDA result_or, e : RAdd(result_or, RMul(RSub(One, result_or), value(e))),
                           Zero, edges)
        ELSE PyFalse

\* solve_ft_gate: the product (AND) or the accumulated union (OR) of the children in
\* `edges`; False, after printing an error, for a child without a value or another type
solve_ft_gate(edges, gate_type, basic_events, result_map) ==
    LET missing == \E i \in 1..Len(edges) : ~ChildValue(edges[i], basic_events, result_map)[1]
        value(e) == ChildValue(e, basic_events, result_map)[2]
    IN  IF gate_type = "AND"
        THEN IF missing THEN PyFalse
             ELSE FoldLeft(LAMBDA result_and, e : RMul(result_and, value(e)), One, edges)
        ELSE IF gate_type = "OR"
        THEN IF missing THEN PyFalse
             ELSE FoldLeft(LAMBDA result_or, e : RAdd(result_or, RMul(RSub(One, result_or), value(e))),
                           Zero, edges)
        ELSE PyFalse

\* solve_dfs skips a node while one of its successors is a gate without a result
Blocked(edges, ft_gates, result_map) ==
    \E i \in 1..Len(edges) : DictHas(ft_gates, edges[i]) /\ ~DictHas(result_map, edges[i])

\* the places in successor_dict of the nodes one scan of solve_dfs does not skip
ReadyNodes(successor_dict, ft_gates, result_map) ==
    {i \in 1..Len(successor_dict) : ~Blocked(successor_dict[i][2], ft_gates, result_map)}

\* one call of solve_dfs on a non-empty successor_dict that finds a node to evaluate: the
\* first node not skipped gets its result and leaves successor_dict, and the scan breaks
solve_dfs(successor_dict, ft_gates, ft_basic_events, result_map) ==
    LET ready == ReadyNodes(successor_dict, ft_gates, result_map)
        i == CHOOSE k \in ready : \A l \in ready : k <= l
        node == successor_dict[i][1]
        edges == successor_dict[i][2]
    IN  [successor_dict |-> DictDel(successor_dict, node),
         result_map |-> DictSet(result_map, node,
                                solve_ft_gate(edges, DictGet(ft_gates, node), ft_basic_events, result_map))]

\* ---------------------------------------------------------------- chain solver

\* what numpy stores for p[i][j] = v: <<ok, number>>; a str that is no number raises
NumpyFloat(v) ==
    IF v[1] = "num" \/ v[1] = "nan" THEN <<TRUE, v>>
    ELSE IF v[1] = "bool" THEN <<TRUE, Zero>>
    ELSE IF IsDigitString(v[2]) THEN <<TRUE, Num(DigitsValue(v[2]), 1)>>
    ELSE <<FALSE, Zero>>

\* the items of transitions as one list of <<from, to, value>>
FlatTransitions(trs) ==
    FoldLeft(LAMBDA acc, item :
                 acc \o [j \in 1..Len(item[2]) |-> <<item[1], item[2][j][1], item[2][j][2]>>],
             <<>>, trs)

ZeroMatrix(rows, cols) == [i \in 1..rows |-> [j \in 1..cols |-> Zero]]

\* create_mc_transition_matrix on the list already extended by the absorbing states:
\* raises when a state is not in the list or a weight is no number
TransitionMatrixRaises(state_list, trs) ==
    \E i \in 1..Len(FlatTransitions(trs)) :
        LET t == FlatTransitions(trs)[i]
        IN  ~InList(t[1], state_list) \/ ~InList(t[2], state_list) \/ ~NumpyFloat(t[3])[1]

create_mc_transition_matrix(state_list, trs) ==
    FoldLeft(LAMBDA p, t :
                 [p EXCEPT ![IndexOf(state_list, t[1]) + 1][IndexOf(state_list, t[2]) + 1] =
                      NumpyFloat(t[3])[2]],
             ZeroMatrix(Len(state_list), Len(state_list)), FlatTransitions(trs))

\* the ascending list of a set of indices
RECURSIVE SortedSeq(_)
SortedSeq(S) ==
    IF S = {} THEN <<>>
    ELSE LET m == CHOOSE x \in S : \A y \in S : x <= y
         IN  <<m>> \o SortedSeq(S \ {m})

\* create_canonical_form on the list extended a second time: np.delete of the absorbing
\* rows and columns gives Q, of the transient columns and absorbing rows gives R
create_canonical_form(transition_matrix, state_list, absorbing_state_list) ==
    LET absorbing_indices == {IndexOf(state_list, state_list[k]) + 1 :
                                  k \in {k \in 1..Len(state_list) : InList(state_list[k], absorbing_state_list)}}
        transient_indices == {IndexOf(state_list, state_list[k]) + 1 :
                                  k \in {k \in 1..Len(state_list) : ~InList(state_list[k], absorbing_state_list)}}
        all == 1..Len(transition_matrix)
        rows == SortedSeq(all \ absorbing_indices)
        rcols == SortedSeq(all \ transient_indices)
    IN  [q_matrix |-> [i \in 1..Len(rows) |-> [j \in 1..Len(rows) |-> transition_matrix[rows[i]][rows[j]]]],
         r_matrix |-> [i \in 1..Len(rows) |-> [j \in 1..Len(rcols) |-> transition_matrix[rows[i]][rcols[j]]]]]

\* the row of column k with the largest absolute value among rows k.., the first of them
PivotRow(m, k) ==
    CHOOSE r \in k..Len(m) :
        /\ \A s \in k..Len(m) : ~RLess(RAbs(m[r][k]), RAbs(m[s][k]))
        /\ \A s \in k..(r - 1) : RLess(RAbs(m[s][k]), RAbs(m[r][k]))

\* lu_factor and lu_solve of n_matrix against the columns on its right, as elimination
\* with partial pivoting on [n_matrix | rhs]; exact arithmetic, so the solution is that of
\* the factorisation.  A zero pivot (singular n_matrix) leaves no finite solution.
RECURSIVE Eliminate(_, _)
Eliminate(m, k) ==
    IF k > Len(m) THEN [singular |-> FALSE, m |-> m]
    ELSE LET r == PivotRow(m, k)
             piv == m[r][k]
             sw == [i \in 1..Len(m) |-> IF i = k THEN m[r] ELSE IF i = r THEN m[k] ELSE m[i]]
             prow == [j \in 1..Len(sw[k]) |-> RDiv(sw[k][j], piv)]
             red == [i \in 1..Len(m) |->
                        IF i = k THEN prow
                        ELSE [j \in 1..Len(sw[i]) |-> RSub(sw[i][j], RMul(sw[i][k], prow[j]))]]
         IN  IF piv[3] = 0 THEN [singular |-> TRUE, m |-> m] ELSE Eliminate(red, k + 1)

\* the solution x of n_matrix x = rhs (rhs a matrix with the rows of n_matrix)
LuSolve(n_matrix, rhs) ==
    LET n == Len(n_matrix)
        aug == [i \in 1..n |-> n_matrix[i] \o rhs[i]]
        e == Eliminate(aug, 1)
    IN  [i \in 1..n |-> [j \in 1..Len(rhs[i]) |-> IF e.singular THEN NaN ELSE e.m[i][n + j]]]

\* solve_mc with n_matrix = I + Q
SolveCanonical_PlusQ(q_matrix, r_matrix, number_of_transient_states) ==
    LET n == number_of_transient_states
        n_matrix == [i \in 1..n |-> [j \in 1..n |-> RAdd(IF i = j THEN One ELSE Zero, q_matrix[i][j])]]
        c_vector == [i \in 1..n |-> <<One>>]
    IN  [b_matrix |-> LuSolve(n_matrix, r_matrix), t_matrix |-> LuSolve(n_matrix, c_vector)]

\* solve_mc after the matrices are built: B = (I - Q)^-1 R and t = (I - Q)^-1 1
SolveCanonical(q_matrix, r_matrix, number_of_transient_states) ==
    LET n == number_of_transient_states
        n_matrix == [i \in 1..n |-> [j \in 1..n |-> RSub(IF i = j THEN One ELSE Zero, q_matrix[i][j])]]
        c_vector == [i \in 1..n |-> <<One>>]
    IN  [b_matrix |-> LuSolve(n_matrix, r_matrix), t_matrix |-> LuSolve(n_matrix, c_vector)]

\* the sum of a list of numbers (ndarray.sum)
SumOf(seq) == FoldLeft(LAMBDA acc, x : IF acc[1] = "nan" \/ x[1] = "nan" THEN NaN ELSE RAdd(acc, x), Zero, seq)

\* ---------------------------------------------------------------- state

VARIABLES
    states,            \* MarkovChain.states (the list object the caller passed in)
    absorbing_states,  \* MarkovChain.absorbing_states
    edges,             \* MarkovChain.edges
    transitions,       \* MarkovChain.transitions
    fault_trees,       \* HybridReliabilityModel.fault_trees, the FaultTree objects
    ft_dict,           \* name -> [ft: place in fault_trees, graph: the tree's graph]
    args,              \* the arguments of the construction calls made so far, and what
                       \* auto_create_ft returned
    pc,                \* where the program is
    caller,            \* who called solve_ft
    repeat_dict,       \* hybrid_solver's repeat_dict
    ft_result_dict,    \* hybrid_solver's ft_result_dict
    pos_i, pos_j,      \* hybrid_solver's place in its loops over ft_dict and transitions
    successor_dict,    \* solve_ft / solve_dfs locals
    result_map,
    ft_gates,
    ft_probs,
    ft_ret,            \* what the last solve_ft returned
    b_matrix, t_matrix,\* what solve_mc returned
    result,            \* what compute_system_reliability returned
    solves,            \* what every compute_system_reliability so far got and returned
    sa,                \* the robotic system, the objects and the runs of the sensitivity analysis
    raised             \* the exception that ended the call, "" for none

vars == <<states, absorbing_states, edges, transitions, fault_trees, ft_dict, args, pc, caller,
          repeat_dict, ft_result_dict, pos_i, pos_j, successor_dict, result_map, ft_gates, ft_probs,
          ft_ret, b_matrix, t_matrix, result, solves, sa, raised>>

mcVars == <<states, absorbing_states, edges, transitions>>
ftLocals == <<successor_dict, result_map, ft_gates, ft_probs>>
outVars == <<b_matrix, t_matrix, result, solves>>

\* Python's None
PyNone == <<"none", "", 0, 1>>

NoResult == [system_reliability |-> PyNone, absorption_prob |-> <<>>, absorption_time |-> <<>>]

\* no robotic system yet, no object allocated, no run of the sensitivity analysis
NoSa == [components |-> <<>>, skills |-> <<>>, heap |-> <<>>, model |-> <<>>, snapshot |-> <<>>,
         runs |-> <<>>, data |-> <<>>]

NoArgs == [skills |-> <<>>, done_state |-> FALSE, repeat_info |-> 0,
           basic_events |-> <<>>, redundancy |-> FALSE, redundant_components |-> <<>>,
           returned |-> "none",
           from_state |-> "", to_state |-> "", transition_value |-> PyNone]

\* ---------------------------------------------------------------- bounds and inputs

\* the longest skill list
MaxStates == 2

\* the most children a hand-built gate lists
MaxChildren == 2

\* the most calls of compute_system_reliability on one model
MaxSolves == 2

NamePool == {"move", "pick", "pick_Up"}

\* the lists of length 1..n of distinct elements of S
DistinctSeqs(S, n) ==
    UNION {{s \in [1..k -> S] : \A a, b \in 1..k : a # b => s[a] # s[b]} : k \in 1..n}

StateLists == DistinctSeqs(NamePool, MaxStates)

\* state names for the chains that are only built: one name inside another, upper case, and
\* the word failure inside a state name
AnyNamePool == {"move", "pick", "pick_Up", "failure_check", "place", "grasp"}

AnyStateLists == DistinctSeqs(AnyNamePool, MaxStates)

\* the basic events (component -> failure probability) a skill's fault tree is built from
BEChoices ==
    {<<<<"joint", Num(1, 10)>>>>,
     <<<<"joint", Num(1, 10)>>, <<"gripper", Num(1, 9)>>>>,
     <<<<"camera", Zero>>>>}

\* a skill of the robotic system that is no state of the chain
ExtraSkills == {<<"place">>}

RepeatDicts ==
    {<<>>,
     <<<<"done", Num(1, 2)>>>>,
     <<<<"done", Num(1, 10)>>, <<"move", Num(9, 10)>>>>}

\* the set of the elements of a list
Range(seq) == {seq[k] : k \in 1..Len(seq)}

\* the basic events of the fault trees that are solved on their own
FamilyBE == <<<<"a", Num(1, 2)>>, <<"b", Num(1, 5)>>, <<"c", Num(1, 10)>>>>

FtBasicEvents == {FamilyBE, <<<<"a", Num(1, 2)>>, <<"b", Num(1, 5)>>>>}

\* redundant_components: none, the pair (a, b), two groups one of which names a component
\* that is no basic event, and a group none of whose members is a basic event
RedundantChoices ==
    {<<>>,
     <<<<"1", <<"a", "b">>>>>>,
     <<<<"1", <<"a", "b">>>>, <<"2", <<"c", "x">>>>>>,
     <<<<"1", <<"x", "y">>>>>>}

\* hand-built gate dicts over FamilyBE: top over g1, g2, a; g1 over g2, a, b; g2 over c and
\* x, which is no basic event; a basic event or a gate may be listed by two gates, and g1
\* may have a type that is neither AND nor OR
GateFamily ==
    {<<<<"top", <<<<topT, topC>>>>>>, <<"g1", <<<<g1T, g1C>>>>>>, <<"g2", <<<<g2T, g2C>>>>>>>> :
        topT \in {"AND", "OR"}, topC \in DistinctSeqs({"g1", "g2", "a"}, MaxChildren),
        g1T \in {"AND", "OR", "XOR"}, g1C \in DistinctSeqs({"g2", "a", "b"}, MaxChildren),
        g2T \in {"AND", "OR"}, g2C \in DistinctSeqs({"c", "x"}, MaxChildren)}

\* ---------------------------------------------------------------- construction

\* the state after MarkovChain(name) and HybridReliabilityModel(name)
Init ==
    /\ states = <<>>
    /\ absorbing_states = <<>>
    /\ edges = <<>>
    /\ transitions = <<>>
    /\ fault_trees = <<>>
    /\ ft_dict = <<>>
    /\ args = NoArgs
    /\ pc = "new"
    /\ caller = ""
    /\ repeat_dict = <<>>
    /\ ft_result_dict = <<>>
    /\ pos_i = 1
    /\ pos_j = 1
    /\ successor_dict = <<>>
    /\ result_map = <<>>
    /\ ft_gates = <<>>
    /\ ft_probs = <<>>
    /\ ft_ret = PyNone
    /\ b_matrix = <<>>
    /\ t_matrix = <<>>
    /\ result = NoResult
    /\ solves = <<>>
    /\ sa = NoSa
    /\ raised = ""

\* MarkovChain.auto_create_mc(states, done_state, repeat_info)
AutoCreateMc ==
    /\ pc = "new"
    /\ \E sts \in StateLists, done_state \in BOOLEAN, repeat_info \in {0, 1} :
        LET absorbing == add_absorbing_states(sts, absorbing_states, done_state)
            edgs == add_edges(sts, absorbing, edges, repeat_info)
        IN  /\ states' = sts
            /\ absorbing_states' = absorbing
            /\ edges' = edgs
            /\ transitions' = add_transitions(edgs, transitions)
            /\ args' = [args EXCEPT !.skills = sts, !.done_state = done_state,
                                    !.repeat_info = repeat_info]
    /\ pc' = "mc"
    /\ UNCHANGED <<fault_trees, ft_dict, caller, repeat_dict, ft_result_dict, pos_i, pos_j, ftLocals,
                   ft_ret, outVars, raised, sa>>

\* create_fault_trees: a FaultTree `<skill>_failure` per skill, top event in lower case,
\* each filled by auto_create_ft(basic_events=be_dict[ft.skill])
create_fault_trees(fts, skills, be_dict) ==
    LET added == FoldLeft(LAMBDA acc, state :
                              Append(acc, FaultTree(state \o "_failure", Lower(state \o "_failure"), state)),
                          fts, skills)
    IN  [k \in 1..Len(added) |->
            auto_create_ft(added[k], be_dict[added[k].skill], "", "", FALSE, <<>>)[1]]

CreateFaultTrees ==
    /\ pc = "mc"
    /\ \E be_dict \in [Range(args.skills) -> BEChoices] :
        fault_trees' = create_fault_trees(fault_trees, args.skills, be_dict)
    /\ pc' = "fts"
    /\ UNCHANGED <<mcVars, ft_dict, args, caller, repeat_dict, ft_result_dict, pos_i, pos_j, ftLocals,
                   ft_ret, outVars, raised, sa>>

\* create_ft_dict: ft_dict[ft.name] = [ft, create_ft_graph(ft)]
create_ft_dict(fts) ==
    LET f[k \in 0..Len(fts)] ==
            IF k = 0 THEN <<>>
            ELSE DictSet(f[k - 1], fts[k].name, [ft |-> k, graph |-> create_ft_graph(fts[k])])
    IN  f[Len(fts)]

CreateFtDict ==
    /\ pc = "fts"
    /\ ft_dict' = create_ft_dict(fault_trees)
    /\ pc' = "ready"
    /\ UNCHANGED <<mcVars, fault_trees, args, caller, repeat_dict, ft_result_dict, pos_i, pos_j, ftLocals,
                   ft_ret, outVars, raised, sa>>

\* ---------------------------------------------------------------- solve_ft

\* the FaultTree object and the graph of the ft_dict item solve_ft is called on
CurrentFt == fault_trees[ft_dict[pos_i][2].ft]
CurrentGraph == ft_dict[pos_i][2].graph

\* solve_ft up to its call of solve_dfs
SolveFtBegin ==
    /\ pc = "solve_ft"
    /\ result_map' = <<>>
    /\ ft_gates' = GateTypes(CurrentGraph)
    /\ ft_probs' = FailureProbs(CurrentGraph)
    /\ IF DictHas(CurrentGraph.nodes, CurrentFt.top_event)
       THEN /\ successor_dict' = dfs_successors(CurrentGraph, CurrentFt.top_event)
            /\ pc' = "solve_dfs"
            /\ raised' = raised
       ELSE /\ successor_dict' = <<>>
            /\ pc' = "raised"
            /\ raised' = "KeyError"
    /\ UNCHANGED <<mcVars, fault_trees, ft_dict, args, caller, repeat_dict, ft_result_dict,
                   pos_i, pos_j, ft_ret, outVars, sa>>

\* one call of solve_dfs: an empty successor_dict ends the recursion; otherwise the first
\* node that is not skipped is evaluated and solve_dfs calls itself; when every node is
\* skipped it calls itself unchanged, until Python's recursion limit ends the solve
SolveDfs ==
    /\ pc = "solve_dfs"
    /\ IF successor_dict = <<>>
       THEN /\ pc' = "solve_ft_end"
            /\ UNCHANGED <<successor_dict, result_map, raised>>
       ELSE IF ReadyNodes(successor_dict, ft_gates, result_map) = {}
       THEN /\ pc' = "raised"
            /\ raised' = "RecursionError"
            /\ UNCHANGED <<successor_dict, result_map>>
       ELSE LET r == solve_dfs(successor_dict, ft_gates, CurrentFt.basic_events, result_map)
            IN  /\ successor_dict' = r.successor_dict
                /\ result_map' = r.result_map
                /\ UNCHANGED <<pc, raised>>
    /\ UNCHANGED <<mcVars, fault_trees, ft_dict, args, caller, repeat_dict, ft_result_dict,
                   pos_i, pos_j, ft_gates, ft_probs, ft_ret, outVars, sa>>

\* the loop of solve_ft that copies the results into its own ft_probs
UpdateProbs(probs, results) ==
    FoldLeft(LAMBDA acc, r : IF DictHas(acc, r[1]) THEN DictSet(acc, r[1], r[2]) ELSE acc,
             probs, results)

\* the end of solve_ft without the call of set_top_event_failure_prob
solve_ft_end_NoStore(ft, results) == ft

\* the end of solve_ft with the top event's result written into basic_events as well
solve_ft_end_IntoBasicEvents(ft, results) ==
    IF DictHas(results, ft.top_event)
    THEN [set_top_event_failure_prob(ft, DictGet(results, ft.top_event))
             EXCEPT !.basic_events = DictSet(ft.basic_events, ft.top_event, DictGet(results, ft.top_event))]
    ELSE ft

\* the end of solve_ft: the top event's result, if there is one, is stored in the tree;
\* the function has no return statement
solve_ft_end(ft, results) ==
    IF DictHas(results, ft.top_event)
    THEN set_top_event_failure_prob(ft, DictGet(results, ft.top_event))
    ELSE ft

\* the end of solve_ft with hybrid_solver leaving its first loop after the first tree
SolveFtEnd_FirstTreeOnly ==
    /\ pc = "solve_ft_end"
    /\ ft_probs' = UpdateProbs(ft_probs, result_map)
    /\ fault_trees' = [fault_trees EXCEPT ![ft_dict[pos_i][2].ft] = solve_ft_end(CurrentFt, result_map)]
    /\ ft_ret' = PyNone
    /\ IF caller = "hybrid_solver"
       THEN /\ pos_i' = pos_i + 1
            /\ pc' = "collect"
       ELSE /\ pos_i' = pos_i
            /\ pc' = "ft_done"
    /\ UNCHANGED <<mcVars, ft_dict, args, caller, repeat_dict, ft_result_dict, pos_j,
                   successor_dict, result_map, ft_gates, outVars, raised, sa>>

SolveFtEnd ==
    /\ pc = "solve_ft_end"
    /\ ft_probs' = UpdateProbs(ft_probs, result_map)
    /\ fault_trees' = [fault_trees EXCEPT ![ft_dict[pos_i][2].ft] = solve_ft_end(CurrentFt, result_map)]
    /\ ft_ret' = PyNone
    /\ IF caller = "hybrid_solver"
       THEN /\ pos_i' = pos_i + 1
            /\ pc' = IF pos_i < Len(ft_dict) THEN "solve_ft" ELSE "collect"
       ELSE /\ pos_i' = pos_i
            /\ pc' = "ft_done"
    /\ UNCHANGED <<mcVars, ft_dict, args, caller, repeat_dict, ft_result_dict, pos_j,
                   successor_dict, result_map, ft_gates, outVars, raised, sa>>

\* ---------------------------------------------------------------- hybrid_solver

\* compute_system_reliability(ft_dict, repeat_dict) up to the first solve_ft of hybrid_solver
ComputeSystemReliability ==
    /\ pc = "ready"
    /\ \E rd \in RepeatDicts : repeat_dict' = rd
    /\ ft_result_dict' = <<>>
    /\ caller' = "hybrid_solver"
    /\ pos_i' = 1
    /\ pos_j' = 1
    /\ pc' = IF Len(ft_dict) > 0 THEN "solve_ft" ELSE "collect"
    /\ UNCHANGED <<mcVars, fault_trees, ft_dict, args, ftLocals, ft_ret, outVars, raised, sa>>

\* the second loop of hybrid_solver: ft_result_dict[top_event] = top_event_failure_prob
CollectResults(fd, fts) ==
    FoldLeft(LAMBDA acc, item : DictSet(acc, fts[item[2].ft].top_event, fts[item[2].ft].top_event_failure_prob),
             <<>>, fd)

HybridCollect ==
    /\ pc = "collect"
    /\ ft_result_dict' = CollectResults(ft_dict, fault_trees)
    /\ pos_j' = 1
    /\ pc' = IF Len(FlatTransitions(transitions)) > 0 THEN "substitute" ELSE "solve_mc"
    /\ UNCHANGED <<mcVars, fault_trees, ft_dict, args, caller, repeat_dict, pos_i, ftLocals,
                   ft_ret, outVars, raised, sa>>

\* the repeat_dict loop: the factor of to_state, if it is a key, multiplies the weight
ApplyRepeat(trs, from_state, to_state, prob, rd) ==
    FoldLeft(LAMBDA acc, sv :
                 IF sv[1] = to_state
                 THEN [trs |-> add_single_transition(acc.trs, from_state, to_state, RMul(acc.prob, sv[2])),
                       prob |-> RMul(acc.prob, sv[2])]
                 ELSE acc,
             [trs |-> trs, prob |-> prob], rd).trs

\* the loop body with the survival weight taken as prob instead of 1 - prob
substitute_NoComplement(trs, from_state, to_state, value, frd, rd) ==
    IF value[1] = "str" /\ DictHas(frd, value[2])
    THEN add_single_transition(trs, from_state, to_state, DictGet(frd, value[2]))
    ELSE IF value = Str("1")
    THEN trs
    ELSE FoldLeft(LAMBDA acc, tp :
                      IF value[1] = "str" /\ ("1 - " \o tp[1]) = value[2]
                      THEN ApplyRepeat(add_single_transition(acc, from_state, to_state, tp[2]),
                                       from_state, to_state, tp[2], rd)
                      ELSE acc,
                  trs, frd)

\* the body of the third loop of hybrid_solver for one transition from_state -> to_state
substitute(trs, from_state, to_state, value, frd, rd) ==
    IF value[1] = "str" /\ DictHas(frd, value[2])
    THEN add_single_transition(trs, from_state, to_state, DictGet(frd, value[2]))
    ELSE IF value = Str("1")
    THEN trs
    ELSE FoldLeft(LAMBDA acc, tp :
                      IF value[1] = "str" /\ ("1 - " \o tp[1]) = value[2]
                      THEN ApplyRepeat(add_single_transition(acc, from_state, to_state, RSub(One, tp[2])),
                                       from_state, to_state, RSub(One, tp[2]), rd)
                      ELSE acc,
                  trs, frd)

HybridSubstitute ==
    /\ pc = "substitute"
    /\ LET t == FlatTransitions(transitions)[pos_j]
       IN  transitions' = substitute(transitions, t[1], t[2], t[3], ft_result_dict, repeat_dict)
    /\ pos_j' = pos_j + 1
    /\ pc' = IF pos_j < Len(FlatTransitions(transitions)) THEN "substitute" ELSE "solve_mc"
    /\ UNCHANGED <<states, absorbing_states, edges, fault_trees, ft_dict, args, caller, repeat_dict,
                   ft_result_dict, pos_i, ftLocals, ft_ret, outVars, raised, sa>>

\* solve_mc: both matrix builders extend the chain's own states list by the absorbing states;
\* a weight that is no number, or a Q that has not the size of the identity, raises
SolveMc ==
    /\ pc = "solve_mc"
    /\ LET n == Len(states)
           ext1 == states \o absorbing_states
           ext2 == ext1 \o absorbing_states
           cf == create_canonical_form(create_mc_transition_matrix(ext1, transitions), ext2, absorbing_states)
           sol == SolveCanonical(cf.q_matrix, cf.r_matrix, n)
       IN  IF TransitionMatrixRaises(ext1, transitions)
           THEN /\ states' = ext1
                /\ pc' = "raised"
                /\ raised' = "ValueError"
                /\ UNCHANGED <<b_matrix, t_matrix>>
           ELSE IF Len(cf.q_matrix) # n
           THEN /\ states' = ext2
                /\ pc' = "raised"
                /\ raised' = "ValueError"
                /\ UNCHANGED <<b_matrix, t_matrix>>
           ELSE /\ states' = ext2
                /\ b_matrix' = sol.b_matrix
                /\ t_matrix' = sol.t_matrix
                /\ pc' = "aggregate"
                /\ raised' = raised
    /\ UNCHANGED <<absorbing_states, edges, transitions, fault_trees, ft_dict, args, caller,
                   repeat_dict, ft_result_dict, pos_i, pos_j, ftLocals, ft_ret, result, solves, sa>>

\* the end of compute_system_reliability: the first row of B without its last column
compute_system_reliability(b, t) ==
    LET num_cols == Len(b[1]) - 1
        absorption_prob == SubSeq(b[1], 1, num_cols)
    IN  [system_reliability |-> SumOf(absorption_prob),
         absorption_prob |-> absorption_prob,
         absorption_time |-> t]

Aggregate ==
    /\ pc = "aggregate"
    /\ result' = compute_system_reliability(b_matrix, t_matrix)
    /\ solves' = Append(solves, [b_matrix |-> b_matrix, t_matrix |-> t_matrix, result |-> result'])
    /\ pc' = "done"
    /\ UNCHANGED <<mcVars, fault_trees, ft_dict, args, caller, repeat_dict, ft_result_dict,
                   pos_i, pos_j, ftLocals, ft_ret, b_matrix, t_matrix, raised, sa>>

Next ==
    \/ AutoCreateMc
    \/ CreateFaultTrees
    \/ CreateFtDict
    \/ ComputeSystemReliability
    \/ SolveFtBegin
    \/ SolveDfs
    \/ SolveFtEnd
    \/ HybridCollect
    \/ HybridSubstitute
    \/ SolveMc
    \/ Aggregate

Spec == Init /\ [][Next]_vars

\* ---------------------------------------------------------------- a model used further

\* create_fault_trees for a robotic system that has a skill more than the chain has states
CreateFaultTreesExtra ==
    /\ pc = "mc"
    /\ \E be_dict \in [Range(args.skills) -> BEChoices], extra \in ExtraSkills :
        fault_trees' = create_fault_trees(fault_trees, args.skills \o extra,
                                          [sk \in Range(args.skills \o extra) |->
                                              IF sk \in Range(args.skills) THEN be_dict[sk]
                                              ELSE <<<<"joint", Num(1, 10)>>>>])
    /\ pc' = "fts"
    /\ UNCHANGED <<mcVars, ft_dict, args, caller, repeat_dict, ft_result_dict, pos_i, pos_j, ftLocals,
                   ft_ret, outVars, raised, sa>>

\* skill lists in which the first skill comes once more at the end
RepeatingLists == {sts \o <<sts[1]>> : sts \in DistinctSeqs(NamePool, MaxStates - 1)}

\* MarkovChain.auto_create_mc(states, done_state, repeat_info) for a task that uses a skill twice
AutoCreateMcRepeating ==
    /\ pc = "new"
    /\ \E sts \in RepeatingLists, done_state \in BOOLEAN, repeat_info \in {0, 1} :
        LET absorbing == add_absorbing_states(sts, absorbing_states, done_state)
            edgs == add_edges(sts, absorbing, edges, repeat_info)
        IN  /\ states' = sts
            /\ absorbing_states' = absorbing
            /\ edges' = edgs
            /\ transitions' = add_transitions(edgs, transitions)
            /\ args' = [args EXCEPT !.skills = sts, !.done_state = done_state,
                                    !.repeat_info = repeat_info]
    /\ pc' = "mc"
    /\ UNCHANGED <<fault_trees, ft_dict, caller, repeat_dict, ft_result_dict, pos_i, pos_j, ftLocals,
                   ft_ret, outVars, raised, sa>>

\* create_fault_trees for a robotic system that lacks the last skills the chain has states for
CreateFaultTreesPartial ==
    /\ pc = "mc"
    /\ \E n \in 0..(Len(args.skills) - 1), be_dict \in [Range(args.skills) -> BEChoices] :
        fault_trees' = create_fault_trees(fault_trees, SubSeq(args.skills, 1, n), be_dict)
    /\ pc' = "fts"
    /\ UNCHANGED <<mcVars, ft_dict, args, caller, repeat_dict, ft_result_dict, pos_i, pos_j, ftLocals,
                   ft_ret, outVars, raised, sa>>

\* auto_create_mc once more on the chain of the solved model, with a new list of the skills
\* it was built from and the same flags: add_states replaces states, add_absorbing_states
\* appends to the absorbing_states there are, add_edges and add_transitions write into the
\* dicts there are
AutoCreateMcAgain ==
    /\ pc = "done"
    /\ Len(solves) < MaxSolves
    /\ LET absorbing == add_absorbing_states(args.skills, absorbing_states, args.done_state)
           edgs == add_edges(args.skills, absorbing, edges, args.repeat_info)
       IN  /\ states' = args.skills
           /\ absorbing_states' = absorbing
           /\ edges' = edgs
           /\ transitions' = add_transitions(edgs, transitions)
    /\ pc' = "rebuilt"
    /\ UNCHANGED <<fault_trees, ft_dict, args, caller, repeat_dict, ft_result_dict, pos_i, pos_j,
                   ftLocals, ft_ret, outVars, raised, sa>>

\* compute_system_reliability(ft_dict, repeat_dict) once more on the model it has solved
SolveAgain ==
    /\ pc \in {"done", "rebuilt"}
    /\ Len(solves) < MaxSolves
    /\ ft_result_dict' = <<>>
    /\ caller' = "hybrid_solver"
    /\ pos_i' = 1
    /\ pos_j' = 1
    /\ pc' = IF Len(ft_dict) > 0 THEN "solve_ft" ELSE "collect"
    /\ UNCHANGED <<mcVars, fault_trees, ft_dict, args, repeat_dict, ftLocals, ft_ret, outVars, raised, sa>>

NextAgain ==
    \/ Next
    \/ CreateFaultTreesExtra
    \/ CreateFaultTreesPartial
    \/ AutoCreateMcRepeating
    \/ AutoCreateMcAgain
    \/ SolveAgain

SpecAgain == Init /\ [][NextAgain]_vars

\* ---------------------------------------------------------------- a fault tree on its own

\* the state after FaultTree('ft', top_event, skill)
InitFT ==
    /\ states = <<>>
    /\ absorbing_states = <<>>
    /\ edges = <<>>
    /\ transitions = <<>>
    /\ \E top_event \in {"", "top"}, skill \in {"", "test"} :
        fault_trees = <<FaultTree("ft", top_event, skill)>>
    /\ ft_dict = <<>>
    /\ args = NoArgs
    /\ pc = "ft_new"
    /\ caller = ""
    /\ repeat_dict = <<>>
    /\ ft_result_dict = <<>>
    /\ pos_i = 1
    /\ pos_j = 1
    /\ successor_dict = <<>>
    /\ result_map = <<>>
    /\ ft_gates = <<>>
    /\ ft_probs = <<>>
    /\ ft_ret = PyNone
    /\ b_matrix = <<>>
    /\ t_matrix = <<>>
    /\ result = NoResult
    /\ solves = <<>>
    /\ sa = NoSa
    /\ raised = ""

\* FaultTree.auto_create_ft(basic_events, top_event, skill, redundancy, redundant_components)
AutoCreateFt ==
    /\ pc = "ft_new"
    /\ \E basic_events \in FtBasicEvents, top_event \in {"", "top"}, skill \in {"", "test"},
          redundancy \in BOOLEAN, redundant_components \in RedundantChoices :
        LET r == auto_create_ft(fault_trees[1], basic_events, top_event, skill, redundancy,
                                redundant_components)
        IN  /\ fault_trees' = <<r[1]>>
            /\ args' = [args EXCEPT !.basic_events = basic_events, !.redundancy = redundancy,
                                    !.redundant_components = redundant_components,
                                    !.returned = IF r[2] THEN "True" ELSE "False"]
            /\ pc' = IF r[2] THEN "ft_built" ELSE "ft_failed"
    /\ UNCHANGED <<mcVars, ft_dict, caller, repeat_dict, ft_result_dict, pos_i, pos_j, ftLocals,
                   ft_ret, outVars, raised, sa>>

\* a tree FaultTree('ft', 'top', 'test') filled by hand: its basic events and gates dicts
\* are written directly (get_basic_events() and get_gates() hand out the dicts themselves)
SetGates ==
    /\ pc = "ft_new"
    /\ fault_trees[1].top_event = "top"
    /\ fault_trees[1].skill = "test"
    /\ \E gates \in GateFamily :
        fault_trees' = <<[fault_trees[1] EXCEPT !.basic_events = FamilyBE, !.gates = gates]>>
    /\ args' = [args EXCEPT !.basic_events = FamilyBE]
    /\ pc' = "ft_built"
    /\ UNCHANGED <<mcVars, ft_dict, caller, repeat_dict, ft_result_dict, pos_i, pos_j, ftLocals,
                   ft_ret, outVars, raised, sa>>

\* ft_graph = create_ft_graph(ft), followed by the call solve_ft(ft_graph, ft)
CreateFtGraph ==
    /\ pc = "ft_built"
    /\ ft_dict' = <<<<fault_trees[1].name, [ft |-> 1, graph |-> create_ft_graph(fault_trees[1])]>>>>
    /\ caller' = "direct"
    /\ pos_i' = 1
    /\ pc' = "solve_ft"
    /\ UNCHANGED <<mcVars, fault_trees, args, repeat_dict, ft_result_dict, pos_j, ftLocals,
                   ft_ret, outVars, raised, sa>>

NextFT ==
    \/ AutoCreateFt
    \/ SetGates
    \/ CreateFtGraph
    \/ SolveFtBegin
    \/ SolveDfs
    \/ SolveFtEnd

SpecFT == InitFT /\ [][NextFT]_vars

\* ---------------------------------------------------------------- a chain that is only built

\* MarkovChain.auto_create_mc(states, done_state, repeat_info) for any list of state names
AutoCreateMcAny ==
    /\ pc = "new"
    /\ \E sts \in AnyStateLists, done_state \in BOOLEAN, repeat_info \in {0, 1} :
        LET absorbing == add_absorbing_states(sts, absorbing_states, done_state)
            edgs == add_edges(sts, absorbing, edges, repeat_info)
        IN  /\ states' = sts
            /\ absorbing_states' = absorbing
            /\ edges' = edgs
            /\ transitions' = add_transitions(edgs, transitions)
            /\ args' = [args EXCEPT !.skills = sts, !.done_state = done_state,
                                    !.repeat_info = repeat_info]
    /\ pc' = "mc_built"
    /\ UNCHANGED <<fault_trees, ft_dict, caller, repeat_dict, ft_result_dict, pos_i, pos_j, ftLocals,
                   ft_ret, outVars, raised, sa>>

\* MarkovChain.add_single_transition(from_state, to_state, transition_value) called on a new
\* chain or on a built one: transitions[from_state] is created only when transitions is
\* empty, so a from_state without an entry in a non-empty transitions raises KeyError
AddSingleTransition ==
    /\ pc \in {"new", "mc_built"}
    /\ \E from_state \in {"move", "pick"}, to_state \in {"pick", "done"} :
        /\ args' = [args EXCEPT !.from_state = from_state, !.to_state = to_state,
                                !.transition_value = Num(1, 2)]
        /\ IF SingleTransitionRaises(transitions, from_state)
           THEN /\ raised' = "KeyError"
                /\ pc' = "raised"
                /\ UNCHANGED transitions
           ELSE /\ transitions' = add_single_transition(transitions, from_state, to_state, Num(1, 2))
                /\ pc' = "added"
                /\ raised' = raised
    /\ UNCHANGED <<states, absorbing_states, edges, fault_trees, ft_dict, caller, repeat_dict,
                   ft_result_dict, pos_i, pos_j, ftLocals, ft_ret, outVars, sa>>

NextMC ==
    \/ AutoCreateMcAny
    \/ AddSingleTransition

SpecMC == Init /\ [][NextMC]_vars

\* ---------------------------------------------------------------- sensitivity analysis

\* robotic_system.components: name and failure_prob; no component has properties
SaComponents == <<<<"joint", Num(1, 10)>>, <<"gripper", Num(1, 10)>>>>

SaSkillNames == {"object_detection", "move", "pick"}

\* the components a skill may use
SaUses == {<<"joint">>, <<"gripper">>}

\* the repeat_dict of relaibotix and of perform_sensitivity_analysis
SaRepeatDict == <<<<"done", Num(1, 10)>>, <<"object_detection", Num(9, 10)>>>>

\* update_be_probability for a component without properties: its failure_prob
update_be_probability(components, component) == DictGet(components, component)

\* be_dict[skill.name] of create_fault_trees: the components the skill uses, in the order of
\* robotic_system.components
BeDictOf(components, uses) ==
    LET active == SelectSeq(components, LAMBDA c : InList(c[1], uses))
    IN  [k \in 1..Len(active) |-> <<active[k][1], update_be_probability(components, active[k][1])>>]

\* be_dict kept from the first call: a later call hands out the dicts of the first model
create_be_dicts_Shared(heap, components, skills) ==
    IF Len(heap) > 2 + Len(skills)
    THEN [heap |-> heap, addrs |-> [k \in 1..Len(skills) |-> 2 + k]]
    ELSE [heap |-> heap \o [k \in 1..Len(skills) |-> BeDictOf(components, skills[k][2])],
          addrs |-> [k \in 1..Len(skills) |-> Len(heap) + k]]

\* the dicts of be_dict: every call of create_fault_trees makes new dict objects
create_be_dicts(heap, components, skills) ==
    [heap |-> heap \o [k \in 1..Len(skills) |-> BeDictOf(components, skills[k][2])],
     addrs |-> [k \in 1..Len(skills) |-> Len(heap) + k]]

\* the model one run works on: create_skill_list, MarkovChain(...),
\* auto_create_mc(states, done_state=True, repeat_info=1) and create_fault_trees.  The states
\* list, the transitions dict and the dicts of basic events are objects of the heap; the
\* chain and the trees hold their addresses
SaNewModel(heap, components, skills) ==
    LET new_states == [k \in 1..Len(skills) |-> skills[k][1]]
        absorbing == add_absorbing_states(new_states, <<>>, TRUE)
        edgs == add_edges(new_states, absorbing, <<>>, 1)
        h1 == heap \o <<new_states, add_transitions(edgs, <<>>)>>
        be == create_be_dicts(h1, components, skills)
        tree(k) == auto_create_ft(FaultTree(new_states[k] \o "_failure",
                                            Lower(new_states[k] \o "_failure"), new_states[k]),
                                  be.heap[be.addrs[k]], "", "", FALSE, <<>>)[1]
    IN  [heap |-> be.heap,
         model |-> [states |-> Len(heap) + 1, absorbing_states |-> absorbing, edges |-> edgs,
                    transitions |-> Len(heap) + 2,
                    fault_trees |-> [k \in 1..Len(new_states) |->
                                        [tree(k) EXCEPT !.basic_events = be.addrs[k]]]]]

\* the loop over the trees of the new model: ft.basic_events[component.name] = old_prob * 10.0
SaScaleAll(heap, fts, component) ==
    FoldLeft(LAMBDA h, ft :
                 IF DictHas(h[ft.basic_events], component)
                 THEN [h EXCEPT ![ft.basic_events] =
                          DictSet(h[ft.basic_events], component,
                                  RMul(DictGet(h[ft.basic_events], component), Num(10, 1)))]
                 ELSE h,
             heap, fts)

\* solve_dfs down to the empty successor_dict
RECURSIVE SolveDfsAll(_, _, _, _)
SolveDfsAll(successors, gates, basic_events, results) ==
    IF successors = <<>> THEN results
    ELSE LET r == solve_dfs(successors, gates, basic_events, results)
         IN  SolveDfsAll(r.successor_dict, gates, basic_events, r.result_map)

\* solve_ft as one step: the tree afterwards
solve_ft(ft_graph, ft_object) ==
    solve_ft_end(ft_object,
                 SolveDfsAll(dfs_successors(ft_graph, ft_object.top_event), GateTypes(ft_graph),
                             ft_object.basic_events, <<>>))

\* the end of compute_system_reliability: what the solve leaves behind and returns
HybridAfterSolve(solved, trs1, state_list, sol) ==
    [fault_trees |-> solved, transitions |-> trs1, states |-> state_list,
     result |-> compute_system_reliability(sol.b_matrix, sol.t_matrix)]

\* solve_mc after the substitution: the list of states is extended twice, once by
\* create_mc_transition_matrix and once by create_canonical_form
HybridAfterSubstitute(solved, trs1, sts, absorbing) ==
    HybridAfterSolve(solved, trs1, (sts \o absorbing) \o absorbing,
                 SolveCanonical(create_canonical_form(create_mc_transition_matrix(sts \o absorbing, trs1),
                                                      (sts \o absorbing) \o absorbing, absorbing).q_matrix,
                                create_canonical_form(create_mc_transition_matrix(sts \o absorbing, trs1),
                                                      (sts \o absorbing) \o absorbing, absorbing).r_matrix,
                                Len(sts)))

\* hybrid_solver's loop over the transitions, after its loop over ft_dict
HybridAfterTrees(solved, fd, sts, absorbing, trs, rd) ==
    HybridAfterSubstitute(solved,
                  FoldLeft(LAMBDA acc, t : substitute(acc, t[1], t[2], t[3], CollectResults(fd, solved), rd),
                           trs, FlatTransitions(trs)),
                  sts, absorbing)

\* create_ft_dict, hybrid_solver and the end of compute_system_reliability as one step
HybridSolve(fts, sts, absorbing, trs, rd) ==
    HybridAfterTrees(FoldLeft(LAMBDA acc, item :
                                  [acc EXCEPT ![item[2].ft] = solve_ft(item[2].graph, acc[item[2].ft])],
                              fts, create_ft_dict(fts)),
                     create_ft_dict(fts), sts, absorbing, trs, rd)

\* the trees of a model with the dicts their addresses name
SaFts(heap, fts) == [k \in 1..Len(fts) |-> [fts[k] EXCEPT !.basic_events = heap[fts[k].basic_events]]]

\* what a solve leaves on the heap: the states list and the transitions dict are changed in
\* place, every tree gets its top-event probability
SaStore(heap, model, r) ==
    [heap |-> [heap EXCEPT ![model.states] = r.states, ![model.transitions] = r.transitions],
     model |-> [model EXCEPT !.fault_trees =
                   [k \in 1..Len(model.fault_trees) |->
                       [model.fault_trees[k] EXCEPT !.top_event_failure_prob =
                           r.fault_trees[k].top_event_failure_prob]]],
     system_reliability |-> r.result.system_reliability]

\* compute_system_reliability on a model of the heap
SaSolveModel(heap, model) ==
    SaStore(heap, model,
            HybridSolve(SaFts(heap, model.fault_trees), heap[model.states], model.absorbing_states,
                        heap[model.transitions], SaRepeatDict))

saFrame == <<mcVars, fault_trees, ft_dict, args, caller, repeat_dict, ft_result_dict, pos_i, pos_j,
             ftLocals, ft_ret, outVars, raised>>

\* relaibotix up to its call of perform_sensitivity_analysis: the robotic system, the hybrid
\* model and its solve
SaSetup ==
    /\ pc = "new"
    /\ \E names \in DistinctSeqs(SaSkillNames, MaxStates) :
        \E uses \in [1..Len(names) -> SaUses] :
            \E m \in {SaNewModel(<<>>, SaComponents, [k \in 1..Len(names) |-> <<names[k], uses[k]>>])} :
                \E r \in {SaSolveModel(m.heap, m.model)} :
                    sa' = [components |-> SaComponents,
                           skills |-> [k \in 1..Len(names) |-> <<names[k], uses[k]>>],
                           heap |-> r.heap, model |-> r.model,
                           snapshot |-> [components |-> SaComponents, heap |-> r.heap, model |-> r.model],
                           runs |-> [k \in 1..Len(SaComponents) |-> [pc |-> "start", model |-> <<>>]],
                           data |-> <<<<"None", r.system_reliability>>>>]
    /\ pc' = "sa"
    /\ UNCHANGED saFrame

\* the run of one component: the new hybrid model
SaBuild ==
    /\ pc = "sa"
    /\ \E k \in 1..Len(sa.runs) :
        /\ sa.runs[k].pc = "start"
        /\ \E m \in {SaNewModel(sa.heap, sa.components, sa.skills)} :
               sa' = [sa EXCEPT !.heap = m.heap, !.runs[k] = [pc |-> "built", model |-> m.model]]
    /\ UNCHANGED <<pc, saFrame>>

\* the run of one component: its probability times 10 in the trees of the new model
SaScale ==
    /\ pc = "sa"
    /\ \E k \in 1..Len(sa.runs) :
        /\ sa.runs[k].pc = "built"
        /\ sa' = [sa EXCEPT !.heap = SaScaleAll(sa.heap, sa.runs[k].model.fault_trees, sa.components[k][1]),
                            !.runs[k].pc = "scaled"]
    /\ UNCHANGED <<pc, saFrame>>

\* the run of one component: the solve of the new model and the entry of
\* sensitivity_analysis_data
SaSolve ==
    /\ pc = "sa"
    /\ \E k \in 1..Len(sa.runs) :
        /\ sa.runs[k].pc = "scaled"
        /\ \E r \in {SaSolveModel(sa.heap, sa.runs[k].model)} :
               sa' = [sa EXCEPT !.heap = r.heap, !.runs[k] = [pc |-> "stored", model |-> r.model],
                                !.data = DictSet(sa.data, sa.components[k][1], r.system_reliability)]
    /\ UNCHANGED <<pc, saFrame>>

NextSA ==
    \/ SaSetup
    \/ SaBuild
    \/ SaScale
    \/ SaSolve

SpecSA == Init /\ [][NextSA]_vars

\* ---------------------------------------------------------------- what the claims speak of

\* the tree solve_ft works on
Tree == fault_trees[1]

\* the type and the listed children of gate g of a tree (each gate has one type)
GateType(ft, g) == DictGet(ft.gates, g)[1][1]
GateChildren(ft, g) == DictGet(ft.gates, g)[1][2]

\* the nodes of a tree that the top event leads to, by the children listed in gates
RECURSIVE Reach(_, _)
Reach(ft, S) ==
    LET more == S \cup UNION {Range(GateChildren(ft, g)) : g \in {x \in S : DictHas(ft.gates, x)}}
    IN  IF more = S THEN S ELSE Reach(ft, more)

ReachableGates(ft) == {g \in Reach(ft, {ft.top_event}) : DictHas(ft.gates, g)}
ReachableEvents(ft) == {e \in Reach(ft, {ft.top_event}) : DictHas(ft.basic_events, e)}

\* every node below the top event is a gate or a basic event
WellFormed(ft) ==
    \A n \in Reach(ft, {ft.top_event}) : DictHas(ft.gates, n) \/ DictHas(ft.basic_events, n)

\* a gate the solver cannot evaluate by the rules: another type than AND and OR, or a
\* listed child that is neither a basic event nor a gate
BadGate(ft, g) ==
    \/ GateType(ft, g) \notin {"AND", "OR"}
    \/ \E c \in Range(GateChildren(ft, g)) : ~DictHas(ft.basic_events, c) /\ ~DictHas(ft.gates, c)

\* the product of p(e), and of 1 - p(e), over a set of basic events
RECURSIVE ProductOver(_, _, _)
ProductOver(be, S, complement) ==
    IF S = {} THEN One
    ELSE LET e == CHOOSE x \in S : TRUE
             f == IF complement THEN RSub(One, DictGet(be, e)) ELSE DictGet(be, e)
         IN  RMul(f, ProductOver(be, S \ {e}, complement))

\* the union of a list of probabilities by the rule acc = acc + (1 - acc) * p
UnionOf(ps) == FoldLeft(LAMBDA acc, q : RAdd(acc, RMul(RSub(One, acc), q)), Zero, ps)

\* the value the combination rules give gate g from all the children its gate lists
RuleValue(ft, g, results) ==
    LET value(c) == IF DictHas(ft.basic_events, c) THEN DictGet(ft.basic_events, c) ELSE DictGet(results, c)
        ps == [k \in 1..Len(GateChildren(ft, g)) |-> value(GateChildren(ft, g)[k])]
    IN  IF GateType(ft, g) = "AND"
        THEN FoldLeft(LAMBDA acc, q : RMul(acc, q), One, ps)
        ELSE UnionOf(ps)

FtSolved == pc = "ft_done"

\* ---------------------------------------------------------------- claims C5 to C10

\* C5: every gate that has a result has the value the rules give from ALL the children its
\* gate lists, and all the gates among those children had their result before it;
\* stated for the gates the rules can evaluate (C8 is about the others)
C5_AllListedChildren ==
    \A k \in 1..Len(result_map) :
        LET g == result_map[k][1]
        IN  (DictHas(Tree.gates, g) /\ ~BadGate(Tree, g)) =>
                /\ \A c \in Range(GateChildren(Tree, g)) :
                       DictHas(Tree.gates, c) => \E l \in 1..(k - 1) : result_map[l][1] = c
                /\ result_map[k][2] = RuleValue(Tree, g, result_map)

C8_FatalConfigurationError ==
    \A k \in 1..Len(result_map) :
        (DictHas(Tree.gates, result_map[k][1]) /\ BadGate(Tree, result_map[k][1])) => pc = "raised"

\* the supplied basic events without the members of the redundant pair (a, b)
C9_Rest == SelectSeq(args.basic_events, LAMBDA e : e[1] \notin {"a", "b"})

\* the top-event probability of the all-OR tree over the supplied basic events
C9_AllOr == UnionOf([k \in 1..Len(args.basic_events) |-> args.basic_events[k][2]])

\* C9: the tree built with redundancy=True and the redundant pair (a, b) has the top-event
\* probability OR(p_a * p_b, the remaining basic events), strictly below that of the
\* all-OR tree over the same basic events
C9_RedundantPair ==
    (/\ FtSolved
     /\ args.returned = "True"
     /\ args.redundancy
     /\ args.redundant_components = <<<<"1", <<"a", "b">>>>>>)
    => /\ Tree.top_event_failure_prob =
              UnionOf(<<RMul(DictGet(args.basic_events, "a"), DictGet(args.basic_events, "b"))>>
                      \o [k \in 1..Len(C9_Rest) |-> C9_Rest[k][2]])
       /\ RLess(AsNum(Tree.top_event_failure_prob), C9_AllOr)

\* C10 as stated: solve_ft returns the top-event probability it stored in the tree
C10_ReturnedAndStored ==
    FtSolved =>
        /\ DictHas(result_map, Tree.top_event) => Tree.top_event_failure_prob = DictGet(result_map, Tree.top_event)
        /\ ft_ret = Tree.top_event_failure_prob

\* C10 as amended: solve_ft returns None; the top event's result is stored in the tree, and
\* a top event that got no result leaves top_event_failure_prob at its initial 0.0
C10_StoredNotReturned ==
    FtSolved =>
        /\ ft_ret = PyNone
        /\ Tree.top_event_failure_prob =
               IF DictHas(result_map, Tree.top_event) THEN DictGet(result_map, Tree.top_event) ELSE Zero

\* a solved tree whose top event got a result that is not the initial value
C10_Witness ==
    /\ FtSolved
    /\ DictHas(result_map, Tree.top_event)
    /\ Tree.top_event_failure_prob = DictGet(result_map, Tree.top_event)
    /\ IsNum(Tree.top_event_failure_prob)
    /\ Tree.top_event_failure_prob # Zero

\* ---------------------------------------------------------------- claims C1 to C4

\* p(s): the top-event probability of the fault tree of skill s
FtProb(s) == fault_trees[CHOOSE k \in 1..Len(fault_trees) : fault_trees[k].skill = s].top_event_failure_prob

\* the probability of the fault tree whose top event is the label of failure state d
FtProbOfTopEvent(d) ==
    fault_trees[CHOOSE k \in 1..Len(fault_trees) : fault_trees[k].top_event = Lower(d)].top_event_failure_prob

\* the `<state>_failure` absorbing states
IsFailureState(d) == InList(d, absorbing_states) /\ Contains("_failure", d)

\* the factor repeat_dict gives destination d, 1 when d is no key
RepeatFactor(d) == IF DictHas(repeat_dict, d) THEN DictGet(repeat_dict, d) ELSE One

\* compute_system_reliability has returned
Solved == pc = "done"

\* the third loop of hybrid_solver has run through
Substituted == pc \in {"solve_mc", "aggregate", "done"}

\* the entries of the first row of B in the columns of the absorbing states that are no
\* failure states
NonFailureEntries ==
    LET cols == SelectSeq([k \in 1..Len(absorbing_states) |-> k],
                          LAMBDA k : ~IsFailureState(absorbing_states[k]))
    IN  [k \in 1..Len(cols) |-> b_matrix[1][cols[k]]]

\* C1: for a chain with the done state, the system reliability returned is the sum of the
\* first row of B over the absorbing states that are no failure states
C1_SumOfNonFailureColumns ==
    (Solved /\ args.done_state) => result.system_reliability = SumOf(NonFailureEntries)

\* C2: for a chain with the done state, no repeat and no repeat_dict, the system reliability
\* returned is the product of 1 - p(s) over the skills
C2_ProductOfSurvival ==
    (Solved /\ args.done_state /\ args.repeat_info = 0 /\ repeat_dict = <<>>) =>
        result.system_reliability =
            FoldLeft(LAMBDA acc, sk : RMul(acc, RSub(One, FtProb(sk))), One, args.skills)

\* C3: every row of the absorption-probability matrix B sums to 1
C3_RowsSumToOne ==
    pc \in {"aggregate", "done"} => \A r \in 1..Len(b_matrix) : SumOf(b_matrix[r]) = One

\* the weight C4 gives a transition out of a transient state s
C4_TransientWeight(t) ==
    IF IsFailureState(t[2])
    THEN t[3] = FtProbOfTopEvent(t[2])
    ELSE t[3] = RMul(RSub(One, FtProb(t[1])), RepeatFactor(t[2]))

McBuilt == pc = "mc_built"

\* C11: after auto_create_mc on a fresh chain absorbing_states is `<state>_failure` for each
\* state in the order of states, followed by one `done` exactly when done_state is true
C11_AbsorbingStates ==
    McBuilt =>
        LET n == Len(args.skills)
        IN  /\ Len(absorbing_states) = n + (IF args.done_state THEN 1 ELSE 0)
            /\ \A k \in 1..n : absorbing_states[k] = args.skills[k] \o "_failure"
            /\ args.done_state => absorbing_states[n + 1] = "done"

\* a chain of two states built with the done state
C11_Witness ==
    /\ McBuilt
    /\ args.done_state
    /\ absorbing_states = <<"pick_Up_failure", "move_failure", "done">>

\* the destinations C12 gives state k of the list
C12_Destinations(k) ==
    IF k < Len(args.skills)
    THEN {args.skills[k + 1], args.skills[k] \o "_failure"}
    ELSE {args.skills[k] \o "_failure"}
         \cup (IF args.done_state THEN {"done"} ELSE {})
         \cup (IF args.repeat_info = 1 THEN {args.skills[1]} ELSE {})

\* C12: after auto_create_mc every state but the last has exactly the edges to the next
\* state and to its own failure state, the last state exactly its own failure state, `done`
\* if present and states[0] if repeat_info is 1, and every absorbing state only itself
C12_EdgesOfEveryState ==
    McBuilt =>
        /\ \A k \in 1..Len(args.skills) :
               /\ DictHas(edges, args.skills[k])
               /\ DictGet(edges, args.skills[k])[1] = "list"
               /\ Range(DictGet(edges, args.skills[k])[2]) = C12_Destinations(k)
               /\ Len(DictGet(edges, args.skills[k])[2]) = Cardinality(C12_Destinations(k))
        /\ \A k \in 1..Len(absorbing_states) :
               /\ DictHas(edges, absorbing_states[k])
               /\ DictGet(edges, absorbing_states[k]) = EStr(absorbing_states[k])

\* the (from, to) pairs of edges
EdgePairs ==
    UNION {IF edges[k][2][1] = "str"
           THEN {<<edges[k][1], edges[k][2][3]>>}
           ELSE {<<edges[k][1], d>> : d \in Range(edges[k][2][2])} : k \in 1..Len(edges)}

\* the (from, to) pairs of transitions
TransitionPairs == {<<t[1], t[2]>> : t \in Range(FlatTransitions(transitions))}

\* C13: after auto_create_mc transitions has the (from, to) pairs of edges; an edge into a
\* failure absorbing state is labelled with that state's name, another edge out of a
\* transient state s with `1 - <s>_failure`, an absorbing self-loop with 1
C13_TransitionLabels ==
    McBuilt =>
        /\ TransitionPairs = EdgePairs
        /\ \A t \in Range(FlatTransitions(transitions)) :
               IF InList(t[1], absorbing_states)
               THEN t[3] = Str("1")
               ELSE IF InList(t[2], absorbing_states) /\ t[2] # "done"
               THEN t[3] = Str(t[2])
               ELSE t[3] = Str("1 - " \o t[1] \o "_failure")

\* ---------------------------------------------------------------- claims C14 to C17

\* solve_mc has returned to hybrid_solver
McSolved == pc \in {"aggregate", "done"}

\* C14: a second solve of the same model returns the absorption probabilities, expected
\* steps and system reliability of the first
C14_SecondSolveSame ==
    \A k \in 2..Len(solves) :
        /\ solves[k].b_matrix = solves[1].b_matrix
        /\ solves[k].t_matrix = solves[1].t_matrix
        /\ solves[k].result.system_reliability = solves[1].result.system_reliability

\* the weight the transition matrix gets for from_state -> to_state, 0 when there is none
WeightOf(from_state, to_state) ==
    LET hits == SelectSeq(FlatTransitions(transitions),
                          LAMBDA t : t[1] = from_state /\ t[2] = to_state /\ NumpyFloat(t[3])[1])
    IN  IF hits = <<>> THEN Zero ELSE NumpyFloat(hits[1][3])[2]

\* I - Q over the states the chain was built from
IMinusQ ==
    [i \in 1..Len(args.skills) |->
        [j \in 1..Len(args.skills) |->
            RSub(IF i = j THEN One ELSE Zero, WeightOf(args.skills[i], args.skills[j]))]]

\* the determinant of a square matrix, by expansion along its first row
RECURSIVE Det(_)
Det(m) ==
    IF Len(m) = 1 THEN m[1][1]
    ELSE LET minor(c) == [i \in 1..(Len(m) - 1) |->
                             [j \in 1..(Len(m) - 1) |-> m[i + 1][IF j < c THEN j ELSE j + 1]]]
             term(c) == RMul(IF c % 2 = 1 THEN m[1][c] ELSE RSub(Zero, m[1][c]), Det(minor(c)))
         IN  FoldLeft(LAMBDA acc, c : RAdd(acc, term(c)), Zero, [c \in 1..Len(m) |-> c])

\* the weight of the edge from the only state back to itself, 0 when there is none
SelfWeight ==
    IF args.repeat_info = 1
    THEN RMul(RSub(One, FtProb(args.skills[1])), RepeatFactor(args.skills[1]))
    ELSE Zero

\* some entry of t is no finite number: lu_solve ran on a singular I - Q
NoFiniteSteps == \E r \in 1..Len(t_matrix) : ~IsNum(t_matrix[r][1])

\* C15 as stated: a chain of one state with failure probability p < 1 has t = 1 / (1 - p),
\* and every solved chain has t > 0 for every transient state
C15_StepsOfSingleState ==
    McSolved =>
        /\ (Len(args.skills) = 1 /\ FtProb(args.skills[1]) # One)
               => t_matrix[1][1] = RDiv(One, RSub(One, FtProb(args.skills[1])))
        /\ \A r \in 1..Len(t_matrix) : IsNum(t_matrix[r][1]) /\ RLess(Zero, t_matrix[r][1])

\* C15 as amended: a chain of one state has t = 1 / (1 - w), w the weight of its edge back to
\* itself (t = 1 without repeat); in every solved chain t >= 1 for every transient state,
\* unless I - Q is singular, and then t holds no finite number
C15_StepsFromSelfWeight ==
    McSolved =>
        /\ (Len(args.skills) = 1 /\ SelfWeight # One)
               => t_matrix[1][1] = RDiv(One, RSub(One, SelfWeight))
        /\ NoFiniteSteps <=> (Det(IMinusQ) = Zero)
        /\ Len(t_matrix) = Len(args.skills)
        /\ NoFiniteSteps \/ \A r \in 1..Len(t_matrix) : ~RLess(t_matrix[r][1], One)

\* the chain move with repeat_info = 1, p = 0.1 and no factor for move: t = 1 / 0.1
C15_Witness ==
    /\ pc = "done"
    /\ args.skills = <<"move">>
    /\ args.repeat_info = 1
    /\ ~DictHas(repeat_dict, "move")
    /\ FtProb("move") = Num(1, 10)
    /\ t_matrix = <<<<Num(10, 1)>>>>

\* C16: when I - Q of the resolved chain is singular (a transient state with no way out),
\* the chain solve ends in an error and returns no absorption probabilities and no
\* expected steps
C16_SingularIsFatal ==
    (Substituted /\ Det(IMinusQ) = Zero) => ~McSolved

\* C17: when ft_dict holds a fault tree whose skill is no state of the chain,
\* compute_system_reliability aborts and returns no reliability figure
C17_UnmatchedTreeAborts ==
    (\E k \in 1..Len(fault_trees) : fault_trees[k].skill \notin Range(args.skills))
        => (pc # "done" /\ result = NoResult)

\* ---------------------------------------------------------------- claims C19 and C20

\* C19: the system reliability returned is a number in [0, 1]
C19_ReliabilityInUnitInterval ==
    Solved =>
        /\ IsNum(result.system_reliability)
        /\ ~RLess(result.system_reliability, Zero)
        /\ ~RLess(One, result.system_reliability)

\* C20: a hybrid solve leaves states (the list the caller passed), absorbing_states, edges
\* and the (from, to) pairs of transitions as auto_create_mc made them
C20_OnlyWeightsChange ==
    McSolved =>
        /\ states = args.skills
        /\ absorbing_states = add_absorbing_states(args.skills, <<>>, args.done_state)
        /\ edges = add_edges(args.skills, absorbing_states, <<>>, args.repeat_info)
        /\ TransitionPairs = EdgePairs

\* ---------------------------------------------------------------- claim C18

\* what the run of component k stores, from the robotic system alone: the solve of a model
\* built from the components' failure_prob with that of component k multiplied by 10
SaExpected(k) ==
    LET c == sa.snapshot.components[k][1]
        names == [j \in 1..Len(sa.skills) |-> sa.skills[j][1]]
        absorbing == add_absorbing_states(names, <<>>, TRUE)
        base(j) == BeDictOf(sa.snapshot.components, sa.skills[j][2])
        scaled(j) == IF DictHas(base(j), c)
                     THEN DictSet(base(j), c, RMul(DictGet(base(j), c), Num(10, 1)))
                     ELSE base(j)
        fts == [j \in 1..Len(names) |->
                   [auto_create_ft(FaultTree(names[j] \o "_failure", Lower(names[j] \o "_failure"), names[j]),
                                   base(j), "", "", FALSE, <<>>)[1]
                    EXCEPT !.basic_events = scaled(j)]]
    IN  HybridSolve(fts, names, absorbing,
                    add_transitions(add_edges(names, absorbing, <<>>, 1), <<>>),
                    SaRepeatDict).result.system_reliability

\* C18: whatever runs of the sensitivity analysis have been made, in whatever order and
\* however interleaved, the original hybrid model (states, transitions, basic events, top-event
\* probabilities) and the components' failure_prob are as they were, and the value stored
\* for a component is the one its run gives on its own
C18_RunsAreIndependent ==
    pc = "sa" =>
        /\ SubSeq(sa.heap, 1, Len(sa.snapshot.heap)) = sa.snapshot.heap
        /\ sa.model = sa.snapshot.model
        /\ sa.components = sa.snapshot.components
        /\ \A k \in 1..Len(sa.runs) :
               sa.runs[k].pc = "stored" =>
                   /\ DictHas(sa.data, sa.components[k][1])
                   /\ DictGet(sa.data, sa.components[k][1]) = SaExpected(k)

\* both runs are through, the second one built while the first was not yet solved, and the
\* value stored for joint is not the baseline
C18_Witness ==
    /\ pc = "sa"
    /\ \A k \in 1..Len(sa.runs) : sa.runs[k].pc = "stored"
    /\ Len(sa.skills) = 2
    /\ sa.runs[1].model.states > sa.runs[2].model.states
    /\ DictHas(sa.data, "joint")
    /\ DictGet(sa.data, "joint") # DictGet(sa.data, "None")

\* ---------------------------------------------------------------- claims C21 to C23

\* a tree without its top-event probability
WithoutProb(ft) == [ft EXCEPT !.top_event_failure_prob = Zero]

\* solve_ft is running
InSolveFt == pc \in {"solve_ft", "solve_dfs", "solve_ft_end"}

\* C21: no step of solve_ft changes name, top_event, skill, basic_events or gates of a
\* FaultTree, nor the nodes and edges of the graph passed in; only top_event_failure_prob
\* may change
C21_SolveFtFrame ==
    [][InSolveFt =>
          /\ ft_dict' = ft_dict
          /\ Len(fault_trees') = Len(fault_trees)
          /\ \A k \in 1..Len(fault_trees) : WithoutProb(fault_trees'[k]) = WithoutProb(fault_trees[k])]_vars

\* a solved tree that got a top-event probability, with the graph it was solved on
C21_Witness ==
    /\ FtSolved
    /\ Tree.top_event_failure_prob = Num(3, 5)
    /\ Tree.basic_events = args.basic_events
    /\ ft_dict[1][2].graph = create_ft_graph(Tree)

\* C22: after auto_create_ft has returned True every basic event supplied is still a key of
\* basic_events with its probability, and every child of every gate is a key of
\* basic_events or of gates
C22_ChildrenResolvable ==
    args.returned = "True" =>
        /\ \A k \in 1..Len(args.basic_events) :
               /\ DictHas(Tree.basic_events, args.basic_events[k][1])
               /\ DictGet(Tree.basic_events, args.basic_events[k][1]) = args.basic_events[k][2]
        /\ \A k \in 1..Len(Tree.gates) :
               \A c \in Range(GateChildren(Tree, Tree.gates[k][1])) :
                   DictHas(Tree.basic_events, c) \/ DictHas(Tree.gates, c)

\* C23: the iteration of solve_dfs stops when a scan evaluates no gate: the solve of a tree
\* (all the gate graphs here are acyclic) never runs until the recursion limit ends it
C23_ScanWithoutProgressStops ==
    raised # "RecursionError"

\* ---------------------------------------------------------------- claims C24 to C28

\* a transition whose weight is still a symbol that is no literal
Unresolved(t) == t[3][1] = "str" /\ ~IsDigitString(t[3][2])

\* C24: a transition that the substitution leaves symbolic is skipped silently: the solve
\* raises no error and returns a result
C24_UnresolvedIsSkipped ==
    (\E t \in Range(FlatTransitions(transitions)) : Unresolved(t)) =>
        /\ raised # "ValueError"
        /\ pc # "raised"

\* C25: auto_create_mc called again after a solve, with the skills and flags of the first
\* call, leaves the chain as the first call left it: states, absorbing_states, edges and
\* the symbolic transitions
C25_RebuildRestores ==
    pc = "rebuilt" =>
        LET absorbing == add_absorbing_states(args.skills, <<>>, args.done_state)
            edgs == add_edges(args.skills, absorbing, <<>>, args.repeat_info)
        IN  /\ states = args.skills
            /\ absorbing_states = absorbing
            /\ edges = edgs
            /\ transitions = add_transitions(edgs, <<>>)

\* C26: when the fault trees are built from the skill sequence the chain was built from,
\* the skill of every fault tree is the name of exactly one transient state, and every
\* transient state has exactly one fault tree in ft_dict
C26_OneTreePerState ==
    (/\ pc = "ready"
     /\ Len(fault_trees) = Len(args.skills)
     /\ \A k \in 1..Len(fault_trees) : fault_trees[k].skill = args.skills[k])
    => /\ \A k \in 1..Len(fault_trees) :
              Cardinality({i \in 1..Len(states) : states[i] = fault_trees[k].skill}) = 1
       /\ \A i \in 1..Len(states) :
              Cardinality({k \in 1..Len(ft_dict) : fault_trees[ft_dict[k][2].ft].skill = states[i]}) = 1

\* C27: in one hybrid solve a substitution is made only when every fault tree of ft_dict
\* has been solved, and none is solved afterwards; the chain solve starts only when every
\* transition has been through the substitution; while trees are solved no transition and
\* no result of the chain changes; the chain is solved exactly once
C27_StepsInOrder ==
    [][/\ pc = "substitute" =>
              /\ pos_i = Len(ft_dict) + 1
              /\ pc' \in {"substitute", "solve_mc"}
              /\ fault_trees' = fault_trees
       /\ pc = "solve_mc" =>
              /\ pos_i = Len(ft_dict) + 1
              /\ pos_j = Len(FlatTransitions(transitions)) + 1
              /\ pc' \in {"aggregate", "raised"}
              /\ solves = <<>>
              /\ <<fault_trees', transitions'>> = <<fault_trees, transitions>>
       /\ (InSolveFt \/ pc = "collect") =>
              /\ pos_j = 1
              /\ <<transitions', b_matrix', t_matrix'>> = <<transitions, b_matrix, t_matrix>>
       /\ pc # "solve_mc" => <<b_matrix', t_matrix'>> = <<b_matrix, t_matrix>>
       /\ pc' = "done" => Len(solves') = 1]_vars

\* a solve of a model with two fault trees that has run through
C27_Witness ==
    /\ pc = "done"
    /\ Len(ft_dict) = 2
    /\ pos_i = 3
    /\ pos_j = Len(FlatTransitions(transitions)) + 1
    /\ Len(solves) = 1
    /\ \A k \in 1..Len(fault_trees) : fault_trees[k].top_event_failure_prob # Zero

\* C28: the transition matrix built after the substitution is row-stochastic: every row
\* sums to 1, and the row of an absorbing state holds 1 on its diagonal
C28_RowStochastic ==
    (pc = "solve_mc" /\ ~TransitionMatrixRaises(states \o absorbing_states, transitions)) =>
        LET p == create_mc_transition_matrix(states \o absorbing_states, transitions)
        IN  /\ \A i \in 1..Len(p) : SumOf(p[i]) = One
            /\ \A k \in 1..Len(absorbing_states) : p[Len(states) + k][Len(states) + k] = One

\* ---------------------------------------------------------------- claims C29 and C30

\* C29: auto_create_ft returns False exactly when the tree ends up without a top event or
\* without a skill, and then leaves the tree as it was; when it returns True a top event or
\* skill that was set before the call is kept
C29_FalseLeavesUnchanged ==
    [][(pc = "ft_new" /\ args'.returned # "none") =>
          /\ (args'.returned = "False") <=> (Tree'.top_event = "" \/ Tree'.skill = "")
          /\ args'.returned = "False" => fault_trees' = fault_trees
          /\ args'.returned = "True" =>
                 /\ Tree.top_event # "" => Tree'.top_event = Tree.top_event
                 /\ Tree.skill # "" => Tree'.skill = Tree.skill]_vars

\* C30: a call add_single_transition(from_state, to_state, value) raises nothing, leaves
\* transitions[from_state][to_state] = value and changes no other transition, whatever
\* transitions held before
C30_SingleTransitionSet ==
    [][args'.from_state # "" =>
          LET t == <<args'.from_state, args'.to_state, args'.transition_value>>
          IN  /\ raised' = ""
              /\ t \in Range(FlatTransitions(transitions'))
              /\ Range(FlatTransitions(transitions')) \ {t} =
                     {x \in Range(FlatTransitions(transitions)) : <<x[1], x[2]>> # <<t[1], t[2]>>}]_vars

====
